---------------------------- MODULE Spec2Model ----------------------------
(***************************************************************************)
(* Model of the multi-provider AI request orchestrator of core-api:        *)
(* src/ai.py (provider adapters with their tenacity retry decorators, the  *)
(* model registry, try_model, get_ai) and the /v1/ai route of              *)
(* src/routes/ai_router/ai_routes.py.                                      *)
(*                                                                         *)
(* Python strings are modelled as sequences of tokens, so that string      *)
(* formatting is concatenation (\o) and str() is a real conversion.        *)
(* Russian literals of the source are transliterated to ASCII.             *)
(***************************************************************************)
EXTENDS Integers, Sequences, FiniteSets, TLC

(***************************************************************************)
(* Registry, default order, templates (src/ai.py:139-194)                  *)
(***************************************************************************)
MISTRAL == "mistral-large-latest"

GPT == "gpt-4o-mini"

DEEPSEEK == "deepseek/deepseek-chat-v3-0324:free"

\* Python's None for the Optional[str] model argument.
None == "<None>"

\* MODEL_CONFIG: model identifier -> handler (the adapter) and response_field
\* (the normalizer).  The api_key is an opaque secret and is left out.
MODEL_CONFIG ==
    [m \in {MISTRAL, GPT, DEEPSEEK} |->
        CASE m = MISTRAL  -> [handler |-> "mistral_request",
                              response_field |-> "choices[0].message.content"]
          [] m = GPT      -> [handler |-> "openai_response_request",
                              response_field |-> "output_text"]
          [] m = DEEPSEEK -> [handler |-> "deepseek_request",
                              response_field |-> "choices[0].message.content"]]

DEFAULT_MODEL_ORDER == <<MISTRAL, DEEPSEEK, GPT>>

PROMPT_TEMPLATES ==
    [t \in {"voice", "csv", "text"} |-> <<"TEMPLATE:", t>>]

\* The literal default of PROMPT_TEMPLATES.get in the message-list branch.
GenericSystemPrompt == <<"Ty - bot-pomoshchnik. Otvechaj chetko i kratko na russkom yazyke.">>

\* The three module-level objects of src/ai.py as the running process holds
\* them (a dict, a list and a dict, shared by every call): fields
\* MODEL_CONFIG, DEFAULT_MODEL_ORDER and PROMPT_TEMPLATES.  The code reads
\* them through this variable.
VARIABLE module_globals

\* Their values when the module has been imported.
ModuleLoaded ==
    [MODEL_CONFIG |-> MODEL_CONFIG,
     DEFAULT_MODEL_ORDER |-> DEFAULT_MODEL_ORDER,
     PROMPT_TEMPLATES |-> PROMPT_TEMPLATES]

(***************************************************************************)
(* Inputs of the model                                                     *)
(***************************************************************************)
\* An identifier that is not a key of MODEL_CONFIG.
UnknownModel == "gpt-5"

\* Values the model argument of get_ai can take.
ModelArgs == {None, "", MISTRAL, GPT, DEEPSEEK, UnknownModel}

\* How many other get_ai calls (of other requests) run beside the call that
\* is followed.
MaxOtherCalls == 1

\* Values of input_type: the three of the Literal and one outside it (the
\* Literal is not enforced on a direct call of get_ai).
InputTypes == {"voice", "csv", "text", "photo"}

Query == <<"Q">>

Context == <<"C">>

History == <<"H">>

\* Exception classes a transport attempt can end with.  The first three are
\* those of the retry predicate, "Exception" stands for every other subclass
\* of Exception (provider API errors, KeyError ...).
TimeoutErr == "asyncio.TimeoutError"

ConnectionErr == "ConnectionError"

ValueErr == "ValueError"

OtherErr == "Exception"

\* Raised at an await point when the task running the call is cancelled; a
\* BaseException that is not an Exception.
CancelledErr == "asyncio.CancelledError"

TransportErrors == {TimeoutErr, ConnectionErr, ValueErr, OtherErr}

(***************************************************************************)
(* Exceptions and str()                                                    *)
(***************************************************************************)
\* An exception object: its class, its message, and for tenacity's RetryError
\* the class of the exception of the last attempt it wraps.
Exc(cls, msg) == [cls |-> cls, msg |-> msg, last_attempt |-> ""]

NoError == [cls |-> "NoneType", msg |-> <<"None">>, last_attempt |-> ""]

\* The exception the transport of model m raises on attempt n with class c.
TransportExc(m, n, c) == Exc(c, <<"failure of ", m, " attempt ", ToString(n)>>)

\* tenacity.RetryError(last_attempt): raised by the retry decorator when it
\* stops (reraise is not set in the decorators of src/ai.py:32-37).
RetryError(e) == [cls |-> "RetryError", msg |-> <<>>, last_attempt |-> e.cls]

\* str(e): the message of an ordinary exception; RetryError prints the
\* future of its last attempt, which shows only the class of the exception.
Str(e) ==
    IF e.cls = "RetryError"
    THEN <<"RetryError[<Future state=finished raised ", e.last_attempt, ">]">>
    ELSE e.msg

(***************************************************************************)
(* The retry decorator of the three adapters (src/ai.py:32-37, 62-67,      *)
(* 103-108)                                                                *)
(***************************************************************************)
\* Variant: the decorator allows one attempt more.
stop_after_attempt_four(attempt_number) == attempt_number >= 4

\* Variant: the decorator stops one attempt early.
stop_after_attempt_two(attempt_number) == attempt_number >= 2

\* stop=stop_after_attempt(3): stop once attempt_number has reached 3.
stop_after_attempt(attempt_number) == attempt_number >= 3

\* wait=wait_fixed(2): the delay after a failed attempt that is retried.
wait_fixed == 2

\* Variant: retry_if_exception_type(Exception), every failure is retried.
retry_if_exception_type_any(cls) == TRUE

\* retry=retry_if_exception_type((asyncio.TimeoutError, ConnectionError,
\* ValueError)).
retry_if_exception_type(cls) == cls \in {TimeoutErr, ConnectionErr, ValueErr}

(***************************************************************************)
(* try_model (src/ai.py:197-244)                                           *)
(***************************************************************************)
\* Variant: the lookup result is dropped and the default is used.
TemplateGet_default(input_type, default) == default

\* dict.get(key, default) on PROMPT_TEMPLATES.
TemplateGet(input_type, default) ==
    IF input_type \in DOMAIN module_globals.PROMPT_TEMPLATES
    THEN module_globals.PROMPT_TEMPLATES[input_type]
    ELSE default

\* The labelled query / context / history text of both branches.
UserText(query, context, history) ==
    <<"Zapros: ">> \o query \o <<"\nKontekst: ">> \o context
                   \o <<"\nIstoriya: ">> \o history

\* Variant: the test of line 225 is inverted, the single string goes to the
\* handlers that take a message list.
RenderPayload_inverted(handler, input_type, query, context, history) ==
    IF handler # "openai_response_request"
    THEN [kind |-> "string",
          prompt |-> TemplateGet(input_type, <<>>) \o <<"\n\n">>
                     \o UserText(query, context, history)]
    ELSE [kind |-> "messages",
          messages |-> << [role |-> "system",
                           content |-> TemplateGet(input_type, GenericSystemPrompt)],
                          [role |-> "user",
                           content |-> UserText(query, context, history)] >>]

\* The payload try_model hands to the handler: one string for
\* openai_response_request, a two-element message list for the others.
RenderPayload(handler, input_type, query, context, history) ==
    IF handler = "openai_response_request"
    THEN [kind |-> "string",
          prompt |-> TemplateGet(input_type, <<>>) \o <<"\n\n">>
                     \o UserText(query, context, history)]
    ELSE [kind |-> "messages",
          messages |-> << [role |-> "system",
                           content |-> TemplateGet(input_type, GenericSystemPrompt)],
                          [role |-> "user",
                           content |-> UserText(query, context, history)] >>]

\* The answer text a provider puts in a well-formed response.
AnswerOf(m) == <<"answer of ", m>>

\* A provider response: the texts found at each of the two paths the
\* normalizers read (r.choices[i].message.content and r.output_text); an
\* empty sequence is an absent path.
Response(choices, output_text) ==
    [choices |-> choices, output_text |-> output_text]

\* The shape the provider of model m returns when it answers.
WellFormed(m) ==
    IF MODEL_CONFIG[m].handler = "openai_response_request"
    THEN Response(<<>>, <<AnswerOf(m)>>)
    ELSE Response(<<AnswerOf(m)>>, <<>>)

\* Responses a transport can return for model m: the well-formed one, and
\* one in which the expected path is absent.
Responses(m) == {WellFormed(m), Response(<<>>, <<>>)}

\* MODEL_CONFIG[m]["response_field"](r): the text at the path, or the
\* exception raised when the path is absent (IndexError / AttributeError).
response_field(m, r) ==
    LET path == module_globals.MODEL_CONFIG[m].response_field
        found == IF path = "output_text" THEN r.output_text ELSE r.choices
    IN  IF Len(found) >= 1
        THEN [ok |-> TRUE, text |-> found[1]]
        ELSE [ok |-> FALSE,
              exc |-> Exc(OtherErr, <<"no ", path, " in response of ", m>>)]

(***************************************************************************)
(* get_ai (src/ai.py:247-341)                                              *)
(***************************************************************************)
\* Variant: the tests are `model is not None`.
Truthy_is_not_none(model) == model # None

\* Truth value of an Optional[str] in `if model:` / `original_model and`.
Truthy(model) == model \notin {None, ""}

\* `model not in MODEL_CONFIG` (line 282).
Unsupported(model) == model \notin DOMAIN module_globals.MODEL_CONFIG

\* Variant: the default order is appended without removing the model.
ModelsToTry_unfiltered(model) ==
    IF Truthy(model)
    THEN <<model>> \o module_globals.DEFAULT_MODEL_ORDER
    ELSE module_globals.DEFAULT_MODEL_ORDER

\* Variant: the candidates after the first are taken cheapest-last-first,
\* the default order reversed.
ModelsToTry_reordered(model) ==
    LET rev == [i \in 1..Len(module_globals.DEFAULT_MODEL_ORDER) |->
                  module_globals.DEFAULT_MODEL_ORDER[
                      Len(module_globals.DEFAULT_MODEL_ORDER) + 1 - i]]
    IN  IF Truthy(model)
        THEN <<model>> \o SelectSeq(rev, LAMBDA m : m # model)
        ELSE rev

\* models_to_try (lines 280-294), for a model that passed line 282.
ModelsToTry(model) ==
    IF Truthy(model)
    THEN <<model>> \o SelectSeq(module_globals.DEFAULT_MODEL_ORDER,
                                 LAMBDA m : m # model)
    ELSE module_globals.DEFAULT_MODEL_ORDER

\* Variant: the test `original_model and` is left out.
IsFallback_untested(original_model, current_model) ==
    current_model # original_model

\* Variant: the comparison with current_model is left out.
IsFallback_uncompared(original_model, current_model) ==
    Truthy(original_model)

\* The condition of line 318.
IsFallback(original_model, current_model) ==
    Truthy(original_model) /\ current_model # original_model

\* Variant: the two model names are interchanged in the f-string.
FallbackText_swapped(current_model, original_model, response_text) ==
    <<"<i>WARN Ispolzuetsya model ", original_model, ", tak kak ",
      current_model, " nedostupna</i>\n\n">> \o response_text

\* The f-string of line 322.
FallbackText(current_model, original_model, response_text) ==
    <<"<i>WARN Ispolzuetsya model ", current_model, ", tak kak ",
      original_model, " nedostupna</i>\n\n">> \o response_text

\* Variant: on a fallback only the annotation is returned.
ReturnValue_noteonly(original_model, current_model, response_text) ==
    IF IsFallback(original_model, current_model)
    THEN FallbackText(current_model, original_model, <<>>)
    ELSE response_text

\* What get_ai returns for a successful attempt (lines 318-325).
ReturnValue(original_model, current_model, response_text) ==
    IF IsFallback(original_model, current_model)
    THEN FallbackText(current_model, original_model, response_text)
    ELSE response_text

\* Variant: the handler names only the classes of the retry predicate.
ExceptException_narrow(cls) == cls \in {TimeoutErr, ConnectionErr, ValueErr}

\* `except Exception` (line 327): every exception class of the model but
\* CancelledError derives from Exception.
ExceptException(cls) == cls # CancelledErr

\* The HTTPException of lines 284-290.
UnsupportedModelError(model) ==
    [status_code |-> 400,
     detail |-> [status |-> "error",
                 message |-> <<"Model '", model, "' ne podderzhivaetsya">>]]

\* The HTTPException of lines 334-341.
AllModelsFailedError(last_error) ==
    [status_code |-> 500,
     detail |-> [status |-> "error",
                 message |-> <<"Ne udalos poluchit otvet ni ot odnoj modeli">>,
                 error |-> Str(last_error)]]

(***************************************************************************)
(* State                                                                   *)
(***************************************************************************)
VARIABLES
    pc,              \* where the call is: "idle", "loop" (top of the for
                     \* loop), "transport" (awaiting the provider), "sleep"
                     \* (awaiting the retry delay), "done" (get_ai has
                     \* returned or raised), "responded" (the route has)
    caller,          \* "none", "direct" (get_ai called as a function) or
                     \* "route" (through POST /v1/ai)
    model_field,     \* the model field of the route's request body
    original_model,  \* the model argument of get_ai
    input_type,      \* the input_type argument of get_ai
    models_to_try,   \* the candidate order
    idx,             \* position of current_model in models_to_try
    attempt_number,  \* tenacity's attempt number inside the handler call
    attempt_outcome, \* the exception of the last finished transport attempt
                     \* of the handler call (tenacity's retry_state.outcome)
    payload,         \* what try_model handed to the current handler
    last_error,      \* last_error of get_ai
    outcome,         \* how get_ai ended
    http_response,   \* how the route ended
    handler_calls,   \* per model: calls of its handler (adapter)
    transport_calls, \* per model: transport attempts made
    sleeps,          \* per model: retry delays taken
    attempt_log,     \* per finished candidate attempt: model and result
    PROXY,           \* config.PROXY: the forward proxy URL, or None
    open_sessions,   \* per model: transport sessions (clients) opened by
                     \* its handler and not closed
    in_flight,       \* the models whose provider call is awaited
    other_calls,     \* get_ai calls of other requests that have run
    clients          \* the client objects constructed so far, each as the
                     \* set of transport attempts that sent through it

\* The request GET /all_users_from_redis (src/routes/redis_routes,
\* src/dependencies.py).
VARIABLES
    redis_pc,        \* where the request is: "idle", "scan" (awaiting
                     \* redis.scan), "scan_close" (awaiting aclose in the
                     \* finally of get_unique_keys_with_prefix), "mget"
                     \* (awaiting redis.json().mget), "dep_close" (awaiting
                     \* aclose in the finally of the dependency), "responded"
    scan_calls,      \* calls of redis.scan made
    unique_keys,     \* number of keys collected
    batch_i,         \* i of the batch loop
    redis_exc,       \* the exception travelling to the route's handler
    connection_log,  \* the calls made on the connection, in order
    export_response  \* how the route ended

\* The request POST /v1/log (src/routes/frida_routes/logger_router.py,
\* src/databases.py).
VARIABLES
    log_pc,          \* where the request is: "idle", "insert_log",
                     \* "insert_hash", "commit", "rollback", "close",
                     \* "responded"
    hashes,          \* data.hashes
    hash_k,          \* topic hashes inserted so far
    transaction,     \* rows inserted in the open transaction
    bot_tables,      \* rows committed to bot_logs / bot_log_topic_hashes
    pg_connection,   \* "none", "open" or "closed"
    log_exc,         \* the exception travelling to the route's handler
    log_response     \* how the route ended

ai_vars == <<pc, caller, model_field, original_model, input_type,
             models_to_try, idx, attempt_number, attempt_outcome, payload,
             last_error, outcome, http_response, handler_calls,
             transport_calls, sleeps, attempt_log, PROXY, open_sessions,
             in_flight, module_globals, other_calls, clients>>

redis_vars == <<redis_pc, scan_calls, unique_keys, batch_i, redis_exc,
                connection_log, export_response>>

pg_vars == <<log_pc, hashes, hash_k, transaction, bot_tables, pg_connection,
             log_exc, log_response>>

vars == <<ai_vars, redis_vars, pg_vars>>

Pending == [kind |-> "pending"]

\* A value of the PROXY environment variable (src/config.py:43).
ProxyUrl == "http://proxy:3128"

NoPayload == [kind |-> "none"]

Init ==
    /\ pc = "idle"
    /\ caller = "none"
    /\ model_field = None
    /\ original_model = None
    /\ input_type = "text"
    /\ models_to_try = <<>>
    /\ idx = 0
    /\ attempt_number = 0
    /\ attempt_outcome = NoError
    /\ payload = NoPayload
    /\ last_error = NoError
    /\ outcome = Pending
    /\ http_response = Pending
    /\ handler_calls = [m \in DOMAIN MODEL_CONFIG |-> 0]
    /\ transport_calls = [m \in DOMAIN MODEL_CONFIG |-> 0]
    /\ sleeps = [m \in DOMAIN MODEL_CONFIG |-> 0]
    /\ attempt_log = <<>>
    /\ PROXY \in {None, ProxyUrl}
    /\ open_sessions = [m \in DOMAIN MODEL_CONFIG |-> 0]
    /\ in_flight = {}
    /\ module_globals = ModuleLoaded
    /\ other_calls = 0
    /\ clients = {}
    /\ redis_pc = "idle"
    /\ scan_calls = 0
    /\ unique_keys = 0
    /\ batch_i = 0
    /\ redis_exc = NoError
    /\ connection_log = <<>>
    /\ export_response = Pending
    /\ log_pc = "idle"
    /\ hashes = <<>>
    /\ hash_k = 0
    /\ transaction = <<>>
    /\ bot_tables = <<>>
    /\ pg_connection = "none"
    /\ log_exc = NoError
    /\ log_response = Pending

current_model == models_to_try[idx]

Bump(f, m) == [f EXCEPT ![m] = @ + 1]

\* A finished candidate attempt: the model, whether try_model returned, the
\* text it returned, the exception that left try_model, and the exception
\* first raised inside it (the one a RetryError wraps).
LogEntry(m, ok, text, exc, cause) ==
    [model |-> m, ok |-> ok, text |-> text, exc |-> exc, cause |-> cause]

(***************************************************************************)
(* Transport sessions of the adapters (src/ai.py:58, 89-100, 128-135)      *)
(***************************************************************************)
\* Whether the handler closes the session of an attempt when the attempt
\* ends (by return or by exception): mistral_request holds the client in
\* `async with`; openai_response_request closes in `finally` only the
\* http_client it made for the proxy; deepseek_request closes nothing.
ClosesSession(handler, proxy) ==
    CASE handler = "mistral_request"         -> TRUE
      [] handler = "openai_response_request" -> proxy # None
      [] handler = "deepseek_request"        -> FALSE

\* open_sessions after the handler of model m has opened a client.
SessionOpened(sessions, m) == [sessions EXCEPT ![m] = @ + 1]

\* open_sessions after a transport attempt of model m has ended.
SessionAfterAttempt(sessions, m, proxy) ==
    IF ClosesSession(MODEL_CONFIG[m].handler, proxy)
    THEN [sessions EXCEPT ![m] = @ - 1]
    ELSE sessions

\* Variant: one client object is kept at module level and every attempt
\* sends through it.
NewClient_shared(cs, attempt) ==
    IF cs = {}
    THEN {{attempt}}
    ELSE LET c == CHOOSE c \in cs : TRUE
         IN  (cs \ {c}) \cup {c \cup {attempt}}

\* The body of a handler runs once per transport attempt (the retry
\* decorator calls the function again) and constructs its client there:
\* Mistral(...) at line 58, httpx.AsyncClient / AsyncOpenAI at lines 89-94,
\* AsyncOpenAI at lines 128-131.  The attempt <<request, model, number>>
\* sends through the object it constructed.
NewClient(cs, attempt) == cs \cup {{attempt}}

(***************************************************************************)
(* get_ai: the code before the loop (src/ai.py:277-296)                    *)
(***************************************************************************)
\* Variant: the model is moved to the front of DEFAULT_MODEL_ORDER in place
\* (remove + insert on the module-level list).
GlobalsAfterGetAi_inplace(g, model) ==
    IF Truthy(model) /\ model \in DOMAIN g.MODEL_CONFIG
    THEN [g EXCEPT !.DEFAULT_MODEL_ORDER =
                     <<model>> \o SelectSeq(@, LAMBDA m : m # model)]
    ELSE g

\* The module-level objects after a call get_ai(..., model) has run on them:
\* get_ai (lines 277-341) and try_model (lines 223-244) only read
\* MODEL_CONFIG and PROMPT_TEMPLATES, and models_to_try, which at line 294
\* is the list DEFAULT_MODEL_ORDER itself, is only iterated.
GlobalsAfterGetAi(g, model) == g

\* Variant: the membership test of line 282 is missing.
RejectsModel_unchecked(model) == FALSE

\* Lines 280-290: a model was passed and it is not a key of MODEL_CONFIG.
RejectsModel(model) == Truthy(model) /\ Unsupported(model)

GetAiEnter(model, it) ==
    /\ original_model' = model
    /\ input_type' = it
    /\ IF RejectsModel(model)
       THEN /\ outcome' = [kind |-> "HTTPException",
                           exc |-> UnsupportedModelError(model)]
            /\ pc' = "done"
            /\ UNCHANGED <<models_to_try, idx>>
       ELSE /\ models_to_try' = ModelsToTry(model)
            /\ idx' = 1
            /\ pc' = "loop"
            /\ UNCHANGED outcome
    /\ last_error' = NoError
    /\ module_globals' = GlobalsAfterGetAi(module_globals, model)
    /\ UNCHANGED <<attempt_number, attempt_outcome, payload, http_response,
                   handler_calls, transport_calls, sleeps, attempt_log,
                   PROXY, open_sessions, in_flight, other_calls, clients,
                   redis_vars, pg_vars>>

\* A direct call get_ai(Query, Context, History, it, model).
get_ai(model, it) ==
    /\ pc = "idle"
    /\ caller' = "direct"
    /\ UNCHANGED model_field
    /\ GetAiEnter(model, it)

(***************************************************************************)
(* One iteration of the loop (src/ai.py:298-330)                           *)
(***************************************************************************)
\* Variant: the loop stays on the candidate that failed.
NextIdx_same(i) == i

\* Variant: the loop steps over a candidate.
NextIdx_skipping(i) == i + 2

\* The position the for loop takes after the candidate at position i.
NextIdx(i) == i + 1

\* An exception e (first raised as cause) leaves the try block of the
\* iteration (lines 327-330): an Exception is recorded and the loop
\* continues, anything else leaves get_ai.
Propagate(e, cause) ==
    IF ExceptException(e.cls)
    THEN /\ last_error' = e
         /\ idx' = NextIdx(idx)
         /\ pc' = "loop"
         /\ attempt_log' = Append(attempt_log,
                                  LogEntry(current_model, FALSE, <<>>, e, cause))
         /\ UNCHANGED outcome
    ELSE /\ outcome' = [kind |-> "raise", exc |-> e]
         /\ pc' = "done"
         /\ UNCHANGED <<last_error, idx, attempt_log>>

\* Lines 300-315 up to the first await of the handler: registry lookup,
\* prompt rendering in try_model, first transport attempt started.
StartAttempt ==
    /\ pc = "loop"
    /\ idx <= Len(models_to_try)
    /\ IF current_model \notin DOMAIN module_globals.MODEL_CONFIG
       THEN /\ LET e == Exc(OtherErr, <<"KeyError: ", current_model>>)
               IN  Propagate(e, e)
            /\ UNCHANGED <<payload, attempt_number, attempt_outcome,
                           handler_calls, transport_calls, open_sessions,
                           in_flight, clients>>
       ELSE /\ payload' = RenderPayload(module_globals.MODEL_CONFIG[current_model].handler,
                                        input_type, Query, Context, History)
            /\ attempt_number' = 1
            /\ attempt_outcome' = NoError
            /\ handler_calls' = Bump(handler_calls, current_model)
            /\ transport_calls' = Bump(transport_calls, current_model)
            /\ open_sessions' = SessionOpened(open_sessions, current_model)
            /\ in_flight' = in_flight \cup {current_model}
            /\ clients' = NewClient(clients, <<"this", current_model, 1>>)
            /\ pc' = "transport"
            /\ UNCHANGED <<last_error, idx, attempt_log, outcome>>
    /\ UNCHANGED <<caller, model_field, original_model, input_type,
                   models_to_try, http_response, sleeps, PROXY,
                   module_globals, other_calls, redis_vars, pg_vars>>

\* The provider answers with r: try_model applies the normalizer of the
\* current model (line 242) and get_ai returns (lines 318-325), or the
\* normalizer raises.
TransportReturns(r) ==
    /\ pc = "transport"
    /\ r \in Responses(current_model)
    /\ LET res == response_field(current_model, r)
       IN  IF res.ok
           THEN /\ outcome' = [kind |-> "return",
                               value |-> ReturnValue(original_model,
                                                     current_model, res.text)]
                /\ pc' = "done"
                /\ attempt_log' = Append(attempt_log,
                                         LogEntry(current_model, TRUE,
                                                  res.text, NoError, NoError))
                /\ UNCHANGED <<last_error, idx>>
           ELSE Propagate(res.exc, res.exc)
    /\ open_sessions' = SessionAfterAttempt(open_sessions, current_model, PROXY)
    /\ in_flight' = in_flight \ {current_model}
    /\ UNCHANGED <<caller, model_field, original_model, input_type,
                   models_to_try, attempt_number, attempt_outcome, payload,
                   http_response, handler_calls, transport_calls, sleeps,
                   PROXY, module_globals, other_calls, clients,
                   redis_vars, pg_vars>>

\* The transport attempt raises an exception of class cls; the retry
\* decorator re-raises it when the predicate rejects it, raises RetryError
\* when it stops, and sleeps otherwise.
TransportRaises(cls) ==
    /\ pc = "transport"
    /\ cls \in TransportErrors
    /\ LET e == TransportExc(current_model, attempt_number, cls)
       IN  /\ attempt_outcome' = e
           /\ IF ~ retry_if_exception_type(cls)
              THEN Propagate(e, e) /\ UNCHANGED sleeps
              ELSE IF stop_after_attempt(attempt_number)
              THEN Propagate(RetryError(e), e) /\ UNCHANGED sleeps
              ELSE /\ pc' = "sleep"
                   /\ sleeps' = Bump(sleeps, current_model)
                   /\ UNCHANGED <<last_error, idx, attempt_log, outcome>>
    /\ open_sessions' = SessionAfterAttempt(open_sessions, current_model, PROXY)
    /\ in_flight' = in_flight \ {current_model}
    /\ UNCHANGED <<caller, model_field, original_model, input_type,
                   models_to_try, attempt_number, payload, http_response,
                   handler_calls, transport_calls, PROXY, module_globals,
                   other_calls, clients,
                   redis_vars, pg_vars>>

\* The retry delay is over: the decorator makes the next attempt.
SleepDone ==
    /\ pc = "sleep"
    /\ attempt_number' = attempt_number + 1
    /\ transport_calls' = Bump(transport_calls, current_model)
    /\ open_sessions' = SessionOpened(open_sessions, current_model)
    /\ in_flight' = in_flight \cup {current_model}
    /\ clients' = NewClient(clients,
                            <<"this", current_model, attempt_number + 1>>)
    /\ pc' = "transport"
    /\ UNCHANGED <<caller, model_field, original_model, input_type,
                   models_to_try, idx, attempt_outcome, payload, last_error,
                   outcome, http_response, handler_calls, sleeps,
                   attempt_log, PROXY, module_globals, other_calls,
                   redis_vars, pg_vars>>

\* The task is cancelled while it awaits the provider or the retry delay:
\* CancelledError is raised at the await and unwinds the handler (the
\* `async with` / `finally` of an attempt in progress run).
Cancel ==
    /\ pc \in {"transport", "sleep"}
    /\ LET e == Exc(CancelledErr, <<>>)
       IN  Propagate(e, e)
    /\ IF pc = "transport"
       THEN /\ open_sessions' = SessionAfterAttempt(open_sessions,
                                                    current_model, PROXY)
            /\ in_flight' = in_flight \ {current_model}
       ELSE UNCHANGED <<open_sessions, in_flight>>
    /\ UNCHANGED <<caller, model_field, original_model, input_type,
                   models_to_try, attempt_number, attempt_outcome, payload,
                   http_response, handler_calls, transport_calls, sleeps,
                   PROXY, module_globals, other_calls, clients,
                   redis_vars, pg_vars>>

\* Lines 332-341: the loop is exhausted.
AllFailed ==
    /\ pc = "loop"
    /\ idx > Len(models_to_try)
    /\ outcome' = [kind |-> "HTTPException",
                   exc |-> AllModelsFailedError(last_error)]
    /\ pc' = "done"
    /\ UNCHANGED <<caller, model_field, original_model, input_type,
                   models_to_try, idx, attempt_number, attempt_outcome,
                   payload, last_error, http_response, handler_calls,
                   transport_calls, sleeps, attempt_log, PROXY,
                   open_sessions, in_flight, module_globals, other_calls, clients,
                   redis_vars, pg_vars>>

(***************************************************************************)
(* The route POST /v1/ai (src/routes/ai_router/ai_routes.py:28-71,         *)
(* src/routes/ai_router/schmeas.py:12-24)                                  *)
(***************************************************************************)
\* The model field left out of the request body.
Omitted == "<omitted>"

\* Variant: the field is Optional[str] with default None.
AIRequestModel_optional(field) == IF field = Omitted THEN None ELSE field

\* AIRequest.model: a str with default "mistral-large-latest".
AIRequestModel(field) == IF field = Omitted THEN MISTRAL ELSE field

\* get_ai_response up to the await of get_ai (lines 41-54).  input_type is
\* validated against the Literal by the schema.
get_ai_response(field, it) ==
    /\ pc = "idle"
    /\ field \in (ModelArgs \ {None}) \cup {Omitted}
    /\ it \in DOMAIN PROMPT_TEMPLATES
    /\ caller' = "route"
    /\ model_field' = field
    /\ GetAiEnter(AIRequestModel(field), it)

\* The HTTPException of the route's catch-all handler (lines 62-71).
InternalServerError(error) ==
    [kind |-> "HTTPException", status_code |-> 500,
     detail |-> [status |-> "error",
                 message |-> <<"Internal server error">>,
                 error |-> error]]

\* Variant: the clause `except HTTPException: raise` is missing, so the
\* catch-all handler also takes the HTTPExceptions of get_ai.
RouteResponse_catchall(o) ==
    CASE o.kind = "return" ->
           [kind |-> "response", status_code |-> 200,
            body |-> [ai_response |-> o.value]]
      [] o.kind = "HTTPException" ->
           InternalServerError(<<ToString(o.exc.status_code), ": ">>
                               \o o.exc.detail.message)
      [] o.kind = "raise" /\ ExceptException(o.exc.cls) ->
           InternalServerError(Str(o.exc))
      [] OTHER -> [kind |-> "raise", exc |-> o.exc]

\* How get_ai_response ends for the outcome o of get_ai (lines 56-71): the
\* AIResponse, the HTTPException of get_ai re-raised unchanged, the
\* catch-all HTTPException for another Exception, or an exception that is
\* not an Exception passing through.
RouteResponse(o) ==
    CASE o.kind = "return" ->
           [kind |-> "response", status_code |-> 200,
            body |-> [ai_response |-> o.value]]
      [] o.kind = "HTTPException" ->
           [kind |-> "HTTPException", status_code |-> o.exc.status_code,
            detail |-> o.exc.detail]
      [] o.kind = "raise" /\ ExceptException(o.exc.cls) ->
           InternalServerError(Str(o.exc))
      [] OTHER -> [kind |-> "raise", exc |-> o.exc]

\* get_ai_response after get_ai (lines 56-71).
RouteReturn ==
    /\ pc = "done"
    /\ caller = "route"
    /\ http_response' = RouteResponse(outcome)
    /\ pc' = "responded"
    /\ UNCHANGED <<caller, model_field, original_model, input_type,
                   models_to_try, idx, attempt_number, attempt_outcome,
                   payload, last_error, outcome, handler_calls,
                   transport_calls, sleeps, attempt_log, PROXY,
                   open_sessions, in_flight, module_globals, other_calls, clients,
                   redis_vars, pg_vars>>

(***************************************************************************)
(* Other requests                                                          *)
(***************************************************************************)
\* models_to_try is the list DEFAULT_MODEL_ORDER itself (line 294), not a
\* new list (line 291).
ModelsToTryIsGlobal == caller # "none" /\ ~ Truthy(original_model)

\* A get_ai call of another request, with argument model, runs while the
\* followed call has not started or is suspended at an await.  Its locals
\* are its own; what it shares with the followed call are the module-level
\* objects.
OtherCall(model) ==
    /\ pc \in {"idle", "transport", "sleep"}
    /\ other_calls < MaxOtherCalls
    /\ other_calls' = other_calls + 1
    /\ module_globals' = GlobalsAfterGetAi(module_globals, model)
    /\ models_to_try' = IF ModelsToTryIsGlobal
                        THEN module_globals'.DEFAULT_MODEL_ORDER
                        ELSE models_to_try
    /\ clients' = IF RejectsModel(model)
                  THEN clients
                  ELSE NewClient(clients, <<"other", "-", other_calls + 1>>)
    /\ UNCHANGED <<pc, caller, model_field, original_model, input_type, idx,
                   attempt_number, attempt_outcome, payload, last_error,
                   outcome, http_response, handler_calls, transport_calls,
                   sleeps, attempt_log, PROXY, open_sessions, in_flight,
                   redis_vars, pg_vars>>

Next ==
    \/ \E model \in ModelArgs : OtherCall(model)
    \/ \E model \in ModelArgs, it \in InputTypes : get_ai(model, it)
    \/ \E field \in ModelArgs \cup {Omitted}, it \in InputTypes :
         get_ai_response(field, it)
    \/ StartAttempt
    \/ \E r \in UNION {Responses(m) : m \in DOMAIN MODEL_CONFIG} :
         TransportReturns(r)
    \/ \E cls \in TransportErrors : TransportRaises(cls)
    \/ SleepDone
    \/ Cancel
    \/ AllFailed
    \/ RouteReturn

Spec == Init /\ [][Next]_vars

\* The awaited provider call ends: it returns a response or raises.
TransportEnds ==
    \/ \E r \in UNION {Responses(m) : m \in DOMAIN MODEL_CONFIG} :
         TransportReturns(r)
    \/ \E cls \in TransportErrors : TransportRaises(cls)

\* A step of the coroutine of get_ai: a synchronous step of the loop, the
\* end of the 2 s delay of wait_fixed, or the end of the awaited provider
\* call.  At most one of the four is enabled in a state.
CoroutineStep == StartAttempt \/ TransportEnds \/ SleepDone \/ AllFailed

\* The steps of one request served alone: Next without the calls of other
\* requests, which change nothing that a step of this call reads.
NextAlone ==
    \/ \E model \in ModelArgs, it \in InputTypes : get_ai(model, it)
    \/ \E field \in ModelArgs \cup {Omitted}, it \in InputTypes :
         get_ai_response(field, it)
    \/ StartAttempt
    \/ \E r \in UNION {Responses(m) : m \in DOMAIN MODEL_CONFIG} :
         TransportReturns(r)
    \/ \E cls \in TransportErrors : TransportRaises(cls)
    \/ SleepDone
    \/ Cancel
    \/ AllFailed
    \/ RouteReturn

\* The behaviours of one request in which the event loop keeps running the
\* coroutine and every awaited provider call ends.  Cancellation may or may
\* not happen.
FairSpec == Init /\ [][NextAlone]_vars /\ WF_vars(CoroutineStep)

(***************************************************************************)
(* GET /all_users_from_redis (src/routes/redis_routes/redis_routes.py:     *)
(* 25-88, src/routes/redis_routes/crud.py:13-55, src/dependencies.py:18-43)*)
(***************************************************************************)
\* batch_size of the route (line 52).
batch_size == 1024

\* How many calls of redis.scan a request makes at most.
MaxScanCalls == 2

\* How many new keys a page of the scan adds to the set.
PageSizes == {0, 1, batch_size}

\* The HTTPException of the route's handler (lines 84-88).
ExportError(e) ==
    [kind |-> "HTTPException", status_code |-> 500, detail |-> Str(e)]

\* The dependency has created the connection with from_url (no command is
\* sent), the route has called get_unique_keys_with_prefix(redis=redis)
\* and that awaits the first redis.scan.
get_all_users_data_from_redis ==
    /\ redis_pc = "idle"
    /\ redis_pc' = "scan"
    /\ scan_calls' = 1
    /\ connection_log' = Append(connection_log, "scan")
    /\ UNCHANGED <<unique_keys, batch_i, redis_exc, export_response,
                   ai_vars, pg_vars>>

\* redis.scan returns n new keys and the next cursor: the loop scans again,
\* or, at cursor 0, leaves through the finally of crud.py:50-51, which
\* awaits redis.aclose().
ScanReturns(n, cursor) ==
    /\ redis_pc = "scan"
    /\ cursor = 0 \/ scan_calls < MaxScanCalls
    /\ unique_keys' = unique_keys + n
    /\ IF cursor = 0
       THEN /\ redis_pc' = "scan_close"
            /\ connection_log' = Append(connection_log, "aclose")
            /\ UNCHANGED scan_calls
       ELSE /\ redis_pc' = "scan"
            /\ scan_calls' = scan_calls + 1
            /\ connection_log' = Append(connection_log, "scan")
    /\ UNCHANGED <<batch_i, redis_exc, export_response, ai_vars, pg_vars>>

\* redis.scan raises: crud.py:47-51 logs, re-raises and awaits
\* redis.aclose() in the finally.
ScanRaises ==
    /\ redis_pc = "scan"
    /\ redis_exc' = Exc("redis.ConnectionError", <<"scan failed">>)
    /\ redis_pc' = "scan_close"
    /\ connection_log' = Append(connection_log, "aclose")
    /\ UNCHANGED <<scan_calls, unique_keys, batch_i, export_response,
                   ai_vars, pg_vars>>

\* The route ends with response r: the dependency's generator is resumed
\* and its finally awaits connection.aclose() (dependencies.py:40-43).
RouteEnds(r) ==
    /\ export_response' = r
    /\ redis_pc' = "dep_close"
    /\ connection_log' = Append(connection_log, "aclose")

\* The batch loop of lines 54-66 at index i, and after it the writing of
\* the file (lines 68-81), which succeeds or raises.
BatchLoop(i, file_ok) ==
    /\ batch_i' = i
    /\ IF i < unique_keys
       THEN /\ redis_pc' = "mget"
            /\ connection_log' = Append(connection_log, "json.mget")
            /\ UNCHANGED export_response
       ELSE IF file_ok
       THEN RouteEnds([kind |-> "FileResponse", status_code |-> 200])
       ELSE RouteEnds(ExportError(Exc("OSError", <<"temp_files">>)))

\* redis.aclose() of crud.py:51 has returned: the exception of the scan
\* reaches the route's handler, or the keys are returned and the batch loop
\* starts.
ScanClosed(file_ok) ==
    /\ redis_pc = "scan_close"
    /\ IF redis_exc # NoError
       THEN RouteEnds(ExportError(redis_exc)) /\ UNCHANGED batch_i
       ELSE BatchLoop(0, file_ok)
    /\ UNCHANGED <<scan_calls, unique_keys, redis_exc, ai_vars, pg_vars>>

\* redis.json().mget returns the values of the batch.
MgetReturns(file_ok) ==
    /\ redis_pc = "mget"
    /\ BatchLoop(batch_i + batch_size, file_ok)
    /\ UNCHANGED <<scan_calls, unique_keys, redis_exc, ai_vars, pg_vars>>

\* redis.json().mget raises.
MgetRaises ==
    /\ redis_pc = "mget"
    /\ redis_exc' = Exc("redis.ConnectionError", <<"mget failed">>)
    /\ RouteEnds(ExportError(redis_exc'))
    /\ UNCHANGED <<scan_calls, unique_keys, batch_i, ai_vars, pg_vars>>

\* connection.aclose() of the dependency has returned.
DependencyClosed ==
    /\ redis_pc = "dep_close"
    /\ redis_pc' = "responded"
    /\ UNCHANGED <<scan_calls, unique_keys, batch_i, redis_exc,
                   connection_log, export_response, ai_vars, pg_vars>>

RedisNext ==
    \/ get_all_users_data_from_redis
    \/ \E n \in PageSizes, cursor \in {0, 1} : ScanReturns(n, cursor)
    \/ ScanRaises
    \/ \E file_ok \in BOOLEAN : ScanClosed(file_ok)
    \/ \E file_ok \in BOOLEAN : MgetReturns(file_ok)
    \/ MgetRaises
    \/ DependencyClosed

RedisSpec == Init /\ [][RedisNext]_vars

(***************************************************************************)
(* POST /v1/log (src/routes/frida_routes/logger_router.py:14-53,           *)
(* src/databases.py:94-114, 177-223, 348-355)                              *)
(***************************************************************************)
\* How many topic hashes a request carries at most.
MaxHashes == 2

HashValues == {"h1", "h2"}

\* Values of data.hashes (a List[str]; a hash may occur twice).
HashLists == UNION {[1..n -> HashValues] : n \in 0..MaxHashes}

\* The row of the INSERT INTO bot_logs (lines 199-206).
LogRow == [table |-> "bot_logs", topic_hash |-> ""]

\* The row of the INSERT INTO bot_log_topic_hashes (lines 210-215).
HashRow(h) == [table |-> "bot_log_topic_hashes", topic_hash |-> h]

\* Variant: the connection is in autocommit mode, an INSERT is committed
\* when it is executed.
Execute_autocommit(tx, tables, row) ==
    [transaction |-> tx, bot_tables |-> Append(tables, row)]

\* cursor.execute of an INSERT on the psycopg2 connection of lines 109-111
\* (autocommit is not set): the row joins the open transaction.
Execute(tx, tables, row) ==
    [transaction |-> Append(tx, row), bot_tables |-> tables]

\* The HTTPException of the route's handler (lines 46-50).
LogError ==
    [kind |-> "HTTPException", status_code |-> 500,
     detail |-> <<"Internal server error">>]

\* A cursor.execute or commit raises e: line 220 of log_message.
LogFails(e) ==
    /\ log_exc' = e
    /\ log_pc' = "rollback"
    /\ UNCHANGED <<hash_k, transaction, bot_tables>>

\* The route up to the first INSERT: PostgreSQL(**config.postgres_config)
\* connects or raises; when it raises postgres stays None.
log_to_frida_db(hs, connect_ok) ==
    /\ log_pc = "idle"
    /\ hashes' = hs
    /\ IF connect_ok
       THEN /\ pg_connection' = "open"
            /\ log_pc' = "insert_log"
            /\ UNCHANGED <<log_exc, log_response>>
       ELSE /\ log_exc' = Exc("psycopg2.OperationalError", <<"connect">>)
            /\ log_response' = LogError
            /\ log_pc' = "responded"
            /\ UNCHANGED pg_connection
    /\ UNCHANGED <<hash_k, transaction, bot_tables, ai_vars, redis_vars>>

\* The INSERT INTO bot_logs ... RETURNING log_id (lines 199-208).
InsertLog(ok) ==
    /\ log_pc = "insert_log"
    /\ IF ok
       THEN LET r == Execute(transaction, bot_tables, LogRow)
            IN  /\ transaction' = r.transaction
                /\ bot_tables' = r.bot_tables
                /\ log_pc' = IF Len(hashes) > 0 THEN "insert_hash"
                             ELSE "commit"
                /\ UNCHANGED <<hash_k, log_exc>>
       ELSE LogFails(Exc("psycopg2.Error", <<"insert bot_logs">>))
    /\ UNCHANGED <<hashes, pg_connection, log_response, ai_vars, redis_vars>>

\* One iteration of the loop of lines 210-215.
InsertHash(ok) ==
    /\ log_pc = "insert_hash"
    /\ IF ok
       THEN LET r == Execute(transaction, bot_tables,
                             HashRow(hashes[hash_k + 1]))
            IN  /\ transaction' = r.transaction
                /\ bot_tables' = r.bot_tables
                /\ hash_k' = hash_k + 1
                /\ log_pc' = IF hash_k + 1 < Len(hashes) THEN "insert_hash"
                             ELSE "commit"
                /\ UNCHANGED log_exc
       ELSE LogFails(Exc("psycopg2.Error", <<"insert bot_log_topic_hashes">>))
    /\ UNCHANGED <<hashes, pg_connection, log_response, ai_vars, redis_vars>>

\* connection.commit() (line 217); on success log_message returns and the
\* route returns StatusResponse(status="success") (line 44).
Commit(ok) ==
    /\ log_pc = "commit"
    /\ IF ok
       THEN /\ bot_tables' = bot_tables \o transaction
            /\ transaction' = <<>>
            /\ log_response' = [kind |-> "response", status_code |-> 200,
                                 detail |-> <<"success">>]
            /\ log_pc' = "close"
            /\ UNCHANGED <<hash_k, log_exc>>
       ELSE /\ LogFails(Exc("psycopg2.Error", <<"commit">>))
            /\ UNCHANGED log_response
    /\ UNCHANGED <<hashes, pg_connection, ai_vars, redis_vars>>

\* connection.rollback() and raise (lines 222-223); the route's handler
\* turns the exception into the 500 (lines 46-50).
Rollback ==
    /\ log_pc = "rollback"
    /\ transaction' = <<>>
    /\ log_response' = LogError
    /\ log_pc' = "close"
    /\ UNCHANGED <<hashes, hash_k, bot_tables, pg_connection, log_exc,
                   ai_vars, redis_vars>>

\* The finally of the route: postgres.connection_close() (lines 51-53).
connection_close ==
    /\ log_pc = "close"
    /\ pg_connection' = "closed"
    /\ log_pc' = "responded"
    /\ UNCHANGED <<hashes, hash_k, transaction, bot_tables, log_exc,
                   log_response, ai_vars, redis_vars>>

LogNext ==
    \/ \E hs \in HashLists, connect_ok \in BOOLEAN :
         log_to_frida_db(hs, connect_ok)
    \/ \E ok \in BOOLEAN : InsertLog(ok)
    \/ \E ok \in BOOLEAN : InsertHash(ok)
    \/ \E ok \in BOOLEAN : Commit(ok)
    \/ Rollback
    \/ connection_close

LogSpec == Init /\ [][LogNext]_vars

(***************************************************************************)
(* Properties                                                              *)
(***************************************************************************)
Models == DOMAIN MODEL_CONFIG

Called == caller # "none"

Finished == pc \in {"done", "responded"}

Returned == outcome.kind = "return"

\* get_ai raised the HTTPException with this status code.
RaisedHTTP(code) ==
    outcome.kind = "HTTPException" /\ outcome.exc.status_code = code

NoAdapterInvoked ==
    \A m \in Models : handler_calls[m] = 0 /\ transport_calls[m] = 0

\* The last finished candidate attempt.
LastAttempt == attempt_log[Len(attempt_log)]

\* The literal parts of the fallback annotation (line 322).
NoteOpen == "<i>WARN Ispolzuetsya model "

NoteMid == ", tak kak "

NoteClose == " nedostupna</i>\n\n"

\* C1 as stated: for every model identifier m that is not a key of the
\* registry, get_ai(model=m) fails with the 400 UnsupportedModel error and no
\* adapter is invoked.  The empty string is such an identifier.
C1_EveryNonKeyRejected ==
    (Called /\ original_model # None /\ original_model \notin Models)
        => RaisedHTTP(400) /\ NoAdapterInvoked

\* C1 amended: for every NON-EMPTY model identifier m that is not a key of
\* the registry, the call ends at once with the 400 error whose message names
\* m, and the call count of every adapter stays 0.
C1_NonEmptyNonKeyRejected ==
    (Called /\ original_model \notin {None, ""} /\ original_model \notin Models)
        => /\ Finished
           /\ RaisedHTTP(400)
           /\ outcome.exc.detail.status = "error"
           /\ outcome.exc.detail.message[2] = original_model
           /\ NoAdapterInvoked
           /\ attempt_log = <<>>

C1_Witness ==
    pc = "done" /\ caller = "direct" /\ original_model = UnknownModel

\* C2: when an explicit supported model was requested and the candidate that
\* succeeds is another model, the returned text is the fallback annotation
\* naming the serving candidate (and the requested model as unavailable)
\* followed by the serving candidate's normalized text.
C2_FallbackAnnotated ==
    (Returned /\ original_model \in Models
              /\ LastAttempt.model # original_model)
        => /\ LastAttempt.ok
           /\ LastAttempt.text = AnswerOf(LastAttempt.model)
           /\ outcome.value = <<NoteOpen, LastAttempt.model, NoteMid,
                                original_model, NoteClose>>
                              \o LastAttempt.text

C2_Witness ==
    /\ Returned
    /\ original_model = MISTRAL
    /\ Len(attempt_log) = 2
    /\ LastAttempt.model = DEEPSEEK

\* C3: when get_ai is called without a model, the result is exactly the
\* normalized text of the candidate that succeeded, with no annotation,
\* whether that candidate is the first, second or third of the default order.
C3_NoAnnotationWithoutModel ==
    (Returned /\ original_model = None)
        => /\ LastAttempt.ok
           /\ LastAttempt.model = DEFAULT_MODEL_ORDER[Len(attempt_log)]
           /\ outcome.value = AnswerOf(LastAttempt.model)
           /\ outcome.value[1] # NoteOpen

C3_Witness ==
    /\ Returned
    /\ original_model = None
    /\ Len(attempt_log) = 3
    /\ LastAttempt.model = GPT

\* C4: for every supported model m, when the attempt of m succeeds, get_ai
\* returns exactly the text extracted by m's normalizer, without annotation,
\* and the adapter of no other model is invoked.
C4_RequestedModelServes ==
    (original_model \in Models /\ Len(attempt_log) >= 1 /\ attempt_log[1].ok)
        => /\ attempt_log[1].model = original_model
           /\ Finished
           /\ outcome = [kind |-> "return", value |-> AnswerOf(original_model)]
           /\ Len(attempt_log) = 1
           /\ \A m \in Models \ {original_model} :
                 handler_calls[m] = 0 /\ transport_calls[m] = 0

C4_Witness ==
    /\ Returned
    /\ original_model = GPT
    /\ Len(attempt_log) = 1
    /\ transport_calls[GPT] = 2

\* C5 as stated: when every candidate fails, get_ai raises the 500 error and
\* the cause it carries is the underlying failure of the last candidate of
\* the order (the exception first raised in that attempt).
C5_CarriesUnderlyingFailure ==
    RaisedHTTP(500)
        => /\ Len(attempt_log) = Len(models_to_try)
           /\ LastAttempt.model = models_to_try[Len(models_to_try)]
           /\ outcome.exc.detail.error = Str(LastAttempt.cause)

\* The order the spec gives for an explicit model: the model, then the
\* default order without it.
ExpectedOrder(model) ==
    CASE model = MISTRAL  -> <<MISTRAL, DEEPSEEK, GPT>>
      [] model = DEEPSEEK -> <<DEEPSEEK, MISTRAL, GPT>>
      [] model = GPT      -> <<GPT, MISTRAL, DEEPSEEK>>
      [] OTHER            -> <<MISTRAL, DEEPSEEK, GPT>>

\* C6: the candidate order is the explicit model followed by the default
\* order without it when a (supported) model is given, the static default
\* order otherwise; no identifier appears twice, every identifier is a key
\* of the registry, and the registry lookup in the loop never fails.
C6_CandidateOrder ==
    (Called /\ ~ RaisedHTTP(400))
        => /\ models_to_try = ExpectedOrder(original_model)
           /\ \A i, j \in 1..Len(models_to_try) :
                 models_to_try[i] = models_to_try[j] => i = j
           /\ \A i \in 1..Len(models_to_try) : models_to_try[i] \in Models
           /\ \A i \in 1..Len(attempt_log) :
                 attempt_log[i].exc.msg = <<>>
                   \/ attempt_log[i].exc.msg[1] # "KeyError: "

C6_Witness ==
    /\ original_model = GPT
    /\ models_to_try = <<GPT, MISTRAL, DEEPSEEK>>
    /\ Len(attempt_log) = 3

RetryableClasses == {"asyncio.TimeoutError", "ConnectionError", "ValueError"}

EntriesOf(m) == {i \in 1..Len(attempt_log) : attempt_log[i].model = m}

\* C7: retry transparency.  An adapter whose transport failed twice with a
\* retryable cause and then answered yields the answer as the candidate's
\* outcome and no failure is recorded for it; a retryable failure reaches the
\* orchestrator only after 3 transport attempts (2 delays), as exactly one
\* recorded attempt failure, after which the loop has moved on.
C7_RetryTransparency ==
    \A i \in 1..Len(attempt_log) :
        LET a == attempt_log[i]
            m == a.model
        IN  /\ (a.ok /\ transport_calls[m] = 3)
                 => /\ sleeps[m] = 2
                    /\ attempt_outcome.cls \in RetryableClasses
                    /\ a.text = AnswerOf(m)
                    /\ Returned
                    /\ SubSeq(outcome.value,
                              Len(outcome.value) - 1, Len(outcome.value))
                         = AnswerOf(m)
                    /\ EntriesOf(m) = {i}
            /\ (~ a.ok /\ a.cause.cls \in RetryableClasses)
                 => /\ a.exc.cls = "RetryError"
                    /\ transport_calls[m] = 3
                    /\ sleeps[m] = 2
                    /\ EntriesOf(m) = {i}
                    /\ handler_calls[m] = 1
                    /\ (idx > i \/ pc = "done" \/ pc = "responded")

C7_Witness ==
    /\ Len(attempt_log) = 2
    /\ attempt_log[1].exc.cls = "RetryError"
    /\ transport_calls[attempt_log[1].model] = 3
    /\ attempt_log[2].ok
    /\ transport_calls[attempt_log[2].model] = 3

Cancelled == outcome.kind = "raise" /\ outcome.exc.cls = CancelledErr

\* C9: a get_ai call that is not cancelled ends in exactly one of three
\* outcomes: a text result, the 400 UnsupportedModel error or the 500
\* AllProvidersExhausted error; no failure of a candidate (adapter or
\* normalization error of any class) reaches the caller, and the route hands
\* on the same three outcomes.
C9_OnlyThreeOutcomes ==
    (Finished /\ ~ Cancelled)
        => /\ \/ Returned
              \/ RaisedHTTP(400) /\ outcome.exc.detail.message[1] = "Model '"
              \/ RaisedHTTP(500) /\ outcome.exc.detail.message
                      = <<"Ne udalos poluchit otvet ni ot odnoj modeli">>
           /\ outcome.kind # "raise"
           /\ pc = "responded" =>
                \/ /\ Returned
                   /\ http_response.status_code = 200
                   /\ http_response.body.ai_response = outcome.value
                \/ /\ outcome.kind = "HTTPException"
                   /\ http_response.kind = "HTTPException"
                   /\ http_response.status_code = outcome.exc.status_code
                   /\ http_response.detail = outcome.exc.detail

C9_Witness ==
    /\ pc = "responded"
    /\ RaisedHTTP(500)
    /\ attempt_log[1].exc.cls = "RetryError"
    /\ attempt_log[2].exc.msg[1] = "no "
    /\ attempt_log[3].exc.cls = OtherErr

\* C10: once a candidate attempt succeeds get_ai returns: every candidate
\* earlier in the order was attempted once and failed, and no candidate later
\* in the order was looked up, rendered for or sent to.
C10_ReturnsOnFirstSuccess ==
    Returned
        => LET k == Len(attempt_log)
           IN  /\ Finished
               /\ k = idx
               /\ attempt_log[k].ok
               /\ \A i \in 1..k :
                     /\ attempt_log[i].model = models_to_try[i]
                     /\ handler_calls[models_to_try[i]] = 1
                     /\ i < k => ~ attempt_log[i].ok
               /\ \A j \in (k + 1)..Len(models_to_try) :
                     /\ handler_calls[models_to_try[j]] = 0
                     /\ transport_calls[models_to_try[j]] = 0
               /\ (payload.kind = "string")
                     <=> (MODEL_CONFIG[models_to_try[k]].handler
                            = "openai_response_request")

C10_Witness ==
    /\ Returned
    /\ Len(attempt_log) = 2
    /\ ~ attempt_log[1].ok
    /\ handler_calls[models_to_try[3]] = 0

\* C11 as stated: every adapter releases the session it opened on every
\* exit path of every attempt, for all three variants, with or without a
\* proxy: a model whose provider call is not awaited has no open session.
C11_SessionsReleased ==
    \A m \in Models :
        open_sessions[m] = IF m \in in_flight THEN 1 ELSE 0

IsExtractionFailure(a) ==
    ~ a.ok /\ a.cause.msg # <<>> /\ a.cause.msg[1] = "no "

\* C12: a failure raised while extracting the text from a provider response
\* is handled like an adapter failure: it is recorded unwrapped as the
\* candidate's cause (and as last_error), nothing more is sent to that
\* candidate, and the loop continues with the next candidate of the order.
C12_ExtractionFailureIsAttemptFailure ==
    \A i \in 1..Len(attempt_log) :
        LET a == attempt_log[i]
            m == a.model
        IN  IsExtractionFailure(a)
              => /\ a.exc = a.cause
                 /\ a.exc.cls = "Exception"
                 /\ i = Len(attempt_log) => last_error = a.exc
                 /\ EntriesOf(m) = {i}
                 /\ handler_calls[m] = 1
                 /\ transport_calls[m] = sleeps[m] + 1
                 /\ m \notin in_flight
                 /\ idx > i \/ Cancelled
                 /\ (pc \in {"transport", "sleep"} /\ Len(attempt_log) = i)
                       => idx = i + 1 /\ current_model = models_to_try[i + 1]
                 /\ Len(attempt_log) > i
                       => attempt_log[i + 1].model = models_to_try[i + 1]

C12_Witness ==
    /\ Len(attempt_log) = 2
    /\ IsExtractionFailure(attempt_log[1])
    /\ transport_calls[attempt_log[1].model] = 2
    /\ attempt_log[2].ok
    /\ Returned

\* s contains sub as a contiguous part.
Contains(s, sub) ==
    \E k \in 0..(Len(s) - Len(sub)) : SubSeq(s, k + 1, k + Len(sub)) = sub

\* All the text of a payload, in the order it is sent.
PayloadText(p) ==
    IF p.kind = "string"
    THEN p.prompt
    ELSE p.messages[1].content \o p.messages[2].content

Rendered == payload.kind # "none"

\* C13: for every input category of {voice, csv, text} and every adapter
\* variant, the payload rendered by try_model contains the literal query,
\* context and history and the full template text of the category.
C13_PayloadHasTemplateAndInputs ==
    (Rendered /\ input_type \in {"voice", "csv", "text"})
        => /\ Contains(PayloadText(payload), <<"Q">>)
           /\ Contains(PayloadText(payload), <<"C">>)
           /\ Contains(PayloadText(payload), <<"H">>)
           /\ Contains(PayloadText(payload), <<"TEMPLATE:", input_type>>)
           /\ payload.kind = "messages"
                 => payload.messages[1].content = <<"TEMPLATE:", input_type>>

C13_Witness ==
    /\ input_type = "voice"
    /\ payload.kind = "string"
    /\ handler_calls[MISTRAL] = 1
    /\ handler_calls[DEEPSEEK] = 1

\* C14 as stated: when the input category is not one of {voice, csv, text}
\* the prompt builder does not fail and the payload carries the generic
\* system instruction in place of the template, for every adapter variant.
C14_GenericInstructionForUnknownCategory ==
    (Rendered /\ input_type \notin {"voice", "csv", "text"})
        => Contains(PayloadText(payload),
                    <<"Ty - bot-pomoshchnik. Otvechaj chetko i kratko na russkom yazyke.">>)

\* C15: the route passes the two errors of get_ai through unchanged: status
\* 400 with {status: "error", message naming the model} for an unsupported
\* model, status 500 with {status: "error", message, error: str(last_error)}
\* for exhaustion; its own "Internal server error" is produced only for a
\* failure that is neither.
C15_RoutePassesErrorsThrough ==
    pc = "responded"
        => /\ RaisedHTTP(400)
                => http_response =
                     [kind |-> "HTTPException", status_code |-> 400,
                      detail |-> [status |-> "error",
                                  message |-> <<"Model '", original_model,
                                                "' ne podderzhivaetsya">>]]
           /\ RaisedHTTP(500)
                => http_response =
                     [kind |-> "HTTPException", status_code |-> 500,
                      detail |-> [status |-> "error",
                                  message |-> <<"Ne udalos poluchit otvet ni ot odnoj modeli">>,
                                  error |-> Str(last_error)]]
           /\ (/\ http_response.kind = "HTTPException"
               /\ http_response.detail.message = <<"Internal server error">>)
                => outcome.kind = "raise"

C15_Witness ==
    /\ pc = "responded"
    /\ http_response.kind = "HTTPException"
    /\ http_response.status_code = 500
    /\ Len(attempt_log) = 3
    /\ model_field = Omitted

\* C16 as stated: when the call is cancelled while a provider call or a
\* retry delay is awaited, the provider call is no longer in flight, the
\* session of the candidate being attempted is released, the cancellation is
\* not recorded as an attempt failure (no later candidate is attempted, no
\* retry is made) and no text is returned.
C16_CancellationReleasesAndStops ==
    Cancelled
        => /\ in_flight = {}
           /\ open_sessions[current_model] = 0
           /\ Len(attempt_log) = idx - 1
           /\ \A i \in 1..Len(attempt_log) :
                 attempt_log[i].exc.cls # "asyncio.CancelledError"
           /\ last_error.cls # "asyncio.CancelledError"
           /\ \A j \in (idx + 1)..Len(models_to_try) :
                 handler_calls[models_to_try[j]] = 0
           /\ transport_calls[current_model] = attempt_number
           /\ outcome.kind # "return"
           /\ http_response.kind \in {"pending", "raise"}

\* The text a provider answered with, as the normalizer extracts it.
ProviderText(m) == <<"answer of ", m>>

\* C17: a call that returns text returns the complete normalized text of
\* exactly one candidate, the one whose attempt succeeded, optionally after
\* the fallback annotation; the result holds no text of another candidate.
C17_AllOrNothing ==
    Returned
        => LET k == Len(attempt_log)
               m == attempt_log[k].model
           IN  /\ {i \in 1..k : attempt_log[i].ok} = {k}
               /\ attempt_log[k].text = ProviderText(m)
               /\ \/ outcome.value = ProviderText(m)
                  \/ outcome.value = <<NoteOpen, m, NoteMid, original_model,
                                       NoteClose>> \o ProviderText(m)
               /\ \A o \in Models \ {m} :
                     ~ Contains(outcome.value, ProviderText(o))

C17_Witness ==
    /\ Returned
    /\ Len(attempt_log) = 3
    /\ original_model = DEEPSEEK
    /\ IsExtractionFailure(attempt_log[1])

\* C18: candidate attempts run strictly one after another: at most one
\* provider call is in flight, it is the call of the current candidate, and
\* while candidate idx is being attempted every earlier candidate's attempt
\* has ended in failure and no later candidate has been started.
C18_StrictlySequential ==
    /\ Cardinality(in_flight) <= 1
    /\ in_flight # {} => pc = "transport" /\ in_flight = {current_model}
    /\ pc \in {"transport", "sleep"}
         => /\ Len(attempt_log) = idx - 1
            /\ \A i \in 1..(idx - 1) :
                  /\ attempt_log[i].model = models_to_try[i]
                  /\ ~ attempt_log[i].ok
                  /\ attempt_log[i].exc.cls \in {"RetryError", "Exception"}
                  /\ attempt_log[i].exc.cls = "RetryError"
                        => transport_calls[models_to_try[i]] = 3
            /\ \A j \in (idx + 1)..Len(models_to_try) :
                  /\ handler_calls[models_to_try[j]] = 0
                  /\ transport_calls[models_to_try[j]] = 0

C18_Witness ==
    /\ pc = "transport"
    /\ idx = 3
    /\ attempt_number = 3
    /\ transport_calls[models_to_try[1]] = 3

TotalTransportCalls ==
    transport_calls[MISTRAL] + transport_calls[DEEPSEEK] + transport_calls[GPT]

\* C19: the orchestrator never retries a candidate: each candidate's handler
\* is called at most once, each handler call makes at most 3 transport calls
\* with at most 2 retry delays, and the whole call makes at most 9.
C19_BoundedAttempts ==
    /\ \A m \in Models :
          /\ handler_calls[m] <= 1
          /\ transport_calls[m] <= 3
          /\ sleeps[m] <= 2
          /\ sleeps[m] <= transport_calls[m]
    /\ attempt_number <= 3
    /\ TotalTransportCalls <= 9
    /\ Len(attempt_log) <= 3

C19_Witness ==
    /\ TotalTransportCalls = 9
    /\ RaisedHTTP(500)

\* The outcome that the call's own argument and the results of its own
\* candidate attempts determine.
OwnOutcome(model, log) ==
    IF model # None /\ model # "" /\ model \notin Models
    THEN [kind |-> "HTTPException", exc |-> UnsupportedModelError(model)]
    ELSE IF log # <<>> /\ log[Len(log)].ok
    THEN [kind |-> "return",
          value |-> IF model \in Models /\ log[Len(log)].model # model
                    THEN <<NoteOpen, log[Len(log)].model, NoteMid, model,
                           NoteClose>> \o log[Len(log)].text
                    ELSE log[Len(log)].text]
    ELSE [kind |-> "HTTPException",
          exc |-> AllModelsFailedError(log[Len(log)].exc)]

\* C20: no get_ai call, the followed one or one of another request, changes
\* the model registry, the default model order or the template set: in every
\* state they are as they were when the module was loaded.  So whatever other
\* calls ran before or between the steps of a call, the candidates it tries
\* are those its own model argument determines, and a call that ends without
\* being cancelled ends with the outcome determined by its own argument and
\* its own provider responses.
C20_GlobalsUntouchedOutcomeOwn ==
    /\ module_globals = ModuleLoaded
    /\ (Called /\ ~ RaisedHTTP(400))
         => \A i \in 1..Len(attempt_log) :
                attempt_log[i].model = ExpectedOrder(original_model)[i]
    /\ (Finished /\ ~ Cancelled)
         => outcome = OwnOutcome(original_model, attempt_log)

\* Another call has run beside a call without explicit model that got its
\* answer from the third candidate.
C20_Witness ==
    /\ other_calls >= 1
    /\ original_model = None
    /\ Returned
    /\ Len(attempt_log) = 3
    /\ module_globals = ModuleLoaded

\* The labelled sections as try_model writes them for the inputs.
LabelledSections ==
    <<"Zapros: ", "Q", "\nKontekst: ", "C", "\nIstoriya: ", "H">>

\* C21: while a candidate's adapter is being called, the payload it was given
\* is one string (template, blank line, labelled query / context / history)
\* when the adapter is openai_response_request, and otherwise a list of two
\* messages: a system message carrying the template and a user message
\* carrying the labelled text.  The normalizer applied to a response is the
\* one registered for the adapter's model: a success carries the text at
\* that model's path, an extraction failure names that model's path.
C21_PayloadShapeAndNormalizer ==
    /\ pc \in {"transport", "sleep"}
         => LET h == MODEL_CONFIG[models_to_try[idx]].handler
                known == input_type \in {"voice", "csv", "text"}
            IN  /\ h = "openai_response_request"
                     => /\ payload.kind = "string"
                        /\ known => payload.prompt =
                                       <<"TEMPLATE:", input_type, "\n\n">>
                                       \o LabelledSections
                /\ h # "openai_response_request"
                     => /\ payload.kind = "messages"
                        /\ Len(payload.messages) = 2
                        /\ payload.messages[1].role = "system"
                        /\ known => payload.messages[1].content =
                                       <<"TEMPLATE:", input_type>>
                        /\ payload.messages[2] =
                             [role |-> "user", content |-> LabelledSections]
    /\ \A i \in 1..Len(attempt_log) :
          LET a == attempt_log[i]
          IN  /\ a.ok => a.text = <<"answer of ", a.model>>
              /\ IsExtractionFailure(a)
                    => a.cause.msg = <<"no ", MODEL_CONFIG[a.model].response_field,
                                       " in response of ", a.model>>

\* gpt-4o-mini is being called with the single string after the normalizer
\* of mistral failed and deepseek's transport failed.
C21_Witness ==
    /\ pc = "transport"
    /\ models_to_try[idx] = GPT
    /\ payload.kind = "string"
    /\ input_type = "csv"
    /\ Len(attempt_log) = 2
    /\ IsExtractionFailure(attempt_log[1])

\* The candidates attempted so far, in the order of their attempts, the one
\* whose adapter is being called included.
Attempted ==
    [i \in 1..Len(attempt_log) |-> attempt_log[i].model]
        \o (IF pc \in {"transport", "sleep"} THEN <<models_to_try[idx]>>
            ELSE <<>>)

\* C22: the candidates a call attempts are, in order, the first ones of a
\* sequence fixed by its model argument alone, whatever the input category,
\* the results of the attempts and the calls of other requests before or
\* beside it; with no model (None or the empty string) that sequence is
\* mistral-large-latest, deepseek/deepseek-chat-v3-0324:free, gpt-4o-mini.
C22_OrderDeterminedByModelOnly ==
    (Called /\ ~ RaisedHTTP(400))
        => /\ \A m \in Models \cup {None, ""} :
                 original_model = m
                    => Attempted = SubSeq(ExpectedOrder(m), 1, Len(Attempted))
           /\ original_model \in {None, ""}
                 => models_to_try = <<"mistral-large-latest",
                                      "deepseek/deepseek-chat-v3-0324:free",
                                      "gpt-4o-mini">>

\* A call for deepseek with a category that has no template, with a call of
\* another request run beside it, has attempted all three candidates.
C22_Witness ==
    /\ original_model = DEEPSEEK
    /\ input_type = "photo"
    /\ other_calls >= 1
    /\ Attempted = <<DEEPSEEK, MISTRAL, GPT>>
    /\ RaisedHTTP(500)

\* The client objects through which attempts of the followed call sent.
OwnClients == {c \in clients : \E a \in c : a[1] = "this"}

\* C23: a transport session belongs to exactly one attempt.  Every transport
\* attempt of the call, first or retried, has a client object of its own;
\* no client object served two attempts, whether of one candidate, of two
\* candidates or of two requests; there are as many client objects of the
\* call as it made transport attempts.
C23_SessionOwnedByOneAttempt ==
    /\ \A c \in clients : Cardinality(c) = 1
    /\ \A m \in Models :
          \A k \in 1..transport_calls[m] : {<<"this", m, k>>} \in clients
    /\ Cardinality(OwnClients) = TotalTransportCalls

\* mistral was attempted three times, deepseek is at its second attempt and
\* a call of another request has made an attempt too.
C23_Witness ==
    /\ transport_calls[MISTRAL] = 3
    /\ transport_calls[DEEPSEEK] = 2
    /\ pc = "transport"
    /\ other_calls >= 1
    /\ Cardinality(clients) = 6

\* C24: a call whose model is the empty string, made directly or through
\* the route, is handled as a call without model: it is not rejected with
\* the 400 error, its candidates are the default order, and a text result is
\* the text of the candidate that answered, whichever candidate that is,
\* without annotation; when it ends it ends as the call with model None and
\* the same attempt results ends.
C24_EmptyModelIsNoModel ==
    (Called /\ original_model = "")
        => /\ ~ RaisedHTTP(400)
           /\ pc # "idle" => models_to_try = <<MISTRAL, DEEPSEEK, GPT>>
           /\ Returned => outcome.value = <<"answer of ", LastAttempt.model>>
           /\ (Finished /\ ~ Cancelled)
                 => outcome = OwnOutcome(None, attempt_log)

\* The route was called with model "" and the second candidate answered.
C24_Witness ==
    /\ caller = "route"
    /\ model_field = ""
    /\ original_model = ""
    /\ Returned
    /\ Len(attempt_log) = 2
    /\ LastAttempt.model = DEEPSEEK

\* C25: a /v1/ai request without the model field calls get_ai with the
\* explicit model "mistral-large-latest", never with no model; its candidate
\* order is the default order; and when mistral fails and a later candidate
\* answers, ai_response is the fallback annotation naming that candidate and
\* mistral-large-latest, followed by the answer.
C25_OmittedModelIsExplicitMistral ==
    (caller = "route" /\ model_field = Omitted)
        => /\ original_model = "mistral-large-latest"
           /\ models_to_try = <<MISTRAL, DEEPSEEK, GPT>>
           /\ (pc = "responded" /\ Returned /\ Len(attempt_log) > 1)
                 => /\ ~ attempt_log[1].ok
                    /\ attempt_log[1].model = MISTRAL
                    /\ http_response.kind = "response"
                    /\ http_response.body.ai_response =
                         <<NoteOpen, LastAttempt.model, NoteMid,
                           "mistral-large-latest", NoteClose>>
                         \o <<"answer of ", LastAttempt.model>>

\* The request named no model, mistral and deepseek failed and the response
\* carries the answer of gpt-4o-mini.
C25_Witness ==
    /\ caller = "route"
    /\ model_field = Omitted
    /\ pc = "responded"
    /\ http_response.kind = "response"
    /\ Len(attempt_log) = 3
    /\ LastAttempt.model = GPT

\* The call has ended in one of its three outcomes.
EndedInOutcome ==
    /\ Finished
    /\ Returned \/ RaisedHTTP(400) \/ RaisedHTTP(500)

\* No candidate has been attempted twice and no more candidates have been
\* attempted than the candidate order holds.
NoLoopBack ==
    /\ \A i, j \in 1..Len(Attempted) : Attempted[i] = Attempted[j] => i = j
    /\ Called /\ ~ RaisedHTTP(400) => Len(Attempted) <= Len(models_to_try)
    /\ \A m \in Models : handler_calls[m] <= 1

\* C26: when every awaited provider call ends, every get_ai call that is not
\* cancelled eventually ends with a text result, the 400 error or the 500
\* error; at no time has it attempted more candidates than its order holds
\* or attempted a candidate again.
C26_Terminates ==
    /\ [] NoLoopBack
    /\ Called ~> (EndedInOutcome \/ Cancelled)

\* A call has ended with the 500 error after all of three candidates used
\* all of their transport attempts.
C26_Witness ==
    /\ Finished
    /\ RaisedHTTP(500)
    /\ Len(attempt_log) = 3
    /\ \A m \in Models : transport_calls[m] = 3 /\ sleeps[m] = 2

\* The positions of connection_log at which the connection was closed.
Closes == {i \in 1..Len(connection_log) : connection_log[i] = "aclose"}

\* C27 as stated: in the user-export route no command is issued on the
\* request's connection after the connection has been closed (every close
\* follows the last scan and the last JSON read), and when the request has
\* ended, with a file or with an error, the connection has been closed
\* exactly once.
C27_NoCommandAfterCloseClosedOnce ==
    /\ \A i, j \in 1..Len(connection_log) :
          (i < j /\ connection_log[i] = "aclose")
              => connection_log[j] \notin {"scan", "json.mget"}
    /\ redis_pc = "responded" => Cardinality(Closes) = 1

\* All the rows of a message whose topic hashes are hs.
AllRows(hs) ==
    <<[table |-> "bot_logs", topic_hash |-> ""]>>
        \o [i \in 1..Len(hs) |->
              [table |-> "bot_log_topic_hashes", topic_hash |-> hs[i]]]

\* C28: log_message is atomic.  At every moment the tables hold either
\* nothing of the message or the bot_logs row with one
\* bot_log_topic_hashes row for every given topic hash; a request that
\* ended with success has committed all of them; when an insert (or the
\* commit) failed, the transaction was rolled back, nothing of the message
\* is persisted, the error reached the route, which answered with status
\* 500, and the connection is closed.
C28_LogMessageAtomic ==
    /\ bot_tables \in {<<>>, AllRows(hashes)}
    /\ log_pc = "responded"
         => /\ transaction = <<>>
            /\ \/ /\ log_exc = NoError
                  /\ log_response.status_code = 200
                  /\ bot_tables = AllRows(hashes)
                  /\ pg_connection = "closed"
               \/ /\ log_exc # NoError
                  /\ log_response =
                       [kind |-> "HTTPException", status_code |-> 500,
                        detail |-> <<"Internal server error">>]
                  /\ bot_tables = <<>>
                  /\ pg_connection =
                       IF log_exc.msg = <<"connect">> THEN "none" ELSE "closed"

\* The insert of the second of two topic hashes failed after the bot_logs
\* row and the first hash row had been inserted; the request has ended.
C28_Witness ==
    /\ log_pc = "responded"
    /\ Len(hashes) = 2
    /\ hash_k = 1
    /\ log_exc.msg = <<"insert bot_log_topic_hashes">>
    /\ log_response.status_code = 500
    /\ bot_tables = <<>>
    /\ pg_connection = "closed"

=============================================================================
